---- MODULE Spec2Model ----
(***************************************************************************)
(* Model of timecard-rust-api: the card registration handlers over the     *)
(* ic_non_reged / ic_id tables (http_api.rs, services/ic_non_reg.rs), the  *)
(* connected-client registry (client_state.rs) and the Socket.IO message   *)
(* relay (socketio_server.rs, services/notification.rs).                   *)
(***************************************************************************)
EXTENDS Integers, Sequences, FiniteSets, Bags, TLC

\* ------------------------------------------------------------ bounds
NumTasks == 2          \* request tasks in flight at once
MaxClock == 18         \* the wall clock stops advancing here
MaxRegistryRows == 3   \* register_ic is not started once ic_id would exceed this many rows
MaxUtc == 2            \* Utc::now() stops advancing here
NumEvents == 1         \* inbound events (socket messages, notification calls) in flight
TrailLen == 2          \* writes per card the history keeps
ChannelCapacity == 2   \* broadcast::channel(1024), scaled down
MaxPublished == 4      \* broadcaster.send calls in one behaviour

\* ------------------------------------------------------------ values
\* Option<T>: None is the empty sequence, Some(v) the one-element sequence.
None == << >>
Some(v) == << v >>

\* Card ids: the handlers are called for RequestCards; the store also holds
\* rows of OtherCard, written by the device client, which no request names.
RequestCards == {"c1"}
OtherCard == "C2"
Cards == RequestCards \cup {OtherCard}

\* The drivers table (id -> name); 999 is requested but absent.
DriverTable == [id \in {1, 2} |-> IF id = 1 THEN "Alice" ELSE "Bob"]
DriverIds == {1, 2, 999}
\* driver ids the device completes a registration with (register_ic's requests)
FinalizeDriverIds == {1}

\* NOW() + INTERVAL 9 HOUR
ReservationOffset == 9

VARIABLES
    clients,        \* ClientState.clients: the entries of the DashMap
    utc,            \* Utc::now()
    added,          \* history: socket ids added and not removed since
    sockets,        \* the sockets connected to namespace "/"
    closed,         \* the sockets that have disconnected
    cf_broadcast_url, \* SocketState.cf_broadcast_url (the webhook), set at startup
    msg,            \* event -> the handler task of an inbound event
    recv,           \* event -> socket -> "hello" emits of the event the socket got
    hook,           \* event -> the detached notify_cf_worker task of the event
    stream,         \* the events broadcaster.send was given, in order
    socketio,       \* ICNonRegServiceImpl.socketio: Option<Arc<SocketIo>>
    queue,          \* the broadcast channel: the values it accepted, in order
    rx,             \* consumer -> its Receiver of the broadcast channel
    ic_non_reged,   \* pending-registration table: set of rows
    ic_id,          \* permanent registry: bag of rows (no unique key)
    now,            \* the store's clock, NOW()
    task,           \* task slot -> the handler it runs, its position and locals
    trail           \* card -> the last writes that reached the tables (history)

regVars == << ic_non_reged, ic_id, now, task, trail >>
clientVars == << clients, utc, added >>
hubVars == << socketio, queue, rx >>
routerVars == << sockets, closed, cf_broadcast_url, msg, recv, hook, stream, hubVars >>
vars == << clientVars, routerVars, regVars >>

Tasks == 1 .. NumTasks

Idle == [op |-> "none", pc |-> "idle", ic_id |-> "", driver_id |-> 0,
         driver_name |-> None, resp |-> None,
         wrote |-> FALSE,        \* history: the call has written ic_non_reged
         registered |-> FALSE,   \* history: the card had a live ic_id row at the call
         registered_at_write |-> FALSE]  \* history: ... and when the upsert ran

\* ------------------------------------------------------------ ClientState

SocketIds == {"s1", "s2"}
IpAddresses == {"unknown", "10.0.0.7"}

\* Mutant of add_client: the entry is pushed without replacing the one the key has.
add_client_push(cl, socket_id, ip_address, t) ==
    cl \cup { [socket_id |-> socket_id, ip_address |-> ip_address,
                connected_at |-> t, last_activity |-> t] }

\* DashMap::insert: the key's entry, if any, is replaced
add_client(cl, socket_id, ip_address, t) ==
    { c \in cl : c.socket_id # socket_id }
        \cup { [socket_id |-> socket_id, ip_address |-> ip_address,
                 connected_at |-> t, last_activity |-> t] }

\* DashMap::remove
remove_client(cl, socket_id) == { c \in cl : c.socket_id # socket_id }

\* Mutant of update_ip: a session without entry gets one.
update_ip_or_insert(cl, socket_id, ip_address, t) ==
    IF \E c \in cl : c.socket_id = socket_id
    THEN { IF c.socket_id = socket_id
           THEN [c EXCEPT !.ip_address = ip_address, !.last_activity = t]
           ELSE c : c \in cl }
    ELSE cl \cup { [socket_id |-> socket_id, ip_address |-> ip_address,
                     connected_at |-> t, last_activity |-> t] }

\* get_mut: no entry, no effect
update_activity(cl, socket_id, t) ==
    { IF c.socket_id = socket_id THEN [c EXCEPT !.last_activity = t] ELSE c : c \in cl }

update_ip(cl, socket_id, ip_address, t) ==
    { IF c.socket_id = socket_id
      THEN [c EXCEPT !.ip_address = ip_address, !.last_activity = t]
      ELSE c : c \in cl }

\* iter().map(clone).collect(): the entries in the map's (arbitrary) order
RECURSIVE Collect(_)
Collect(S) ==
    IF S = {} THEN << >>
    ELSE LET x == CHOOSE y \in S : TRUE IN << x >> \o Collect(S \ {x})

get_all_clients == Collect(clients)

\* DashMap::len
get_client_count == Cardinality(clients)

\* ------------------------------------------------------------ envelopes

Events == 1 .. NumEvents

\* A JSON number that is an integer: wraps * 2^32 + low, low within i32.
IntId(wraps, low) == [kind |-> "int", wraps |-> wraps, low |-> low]
\* A JSON value that as_i64() rejects (a string, a fraction).
OtherId == [kind |-> "other", wraps |-> 0, low |-> 0]

\* Value::as_i64
as_i64(v) == IF v.kind = "int" THEN Some(v) ELSE None
\* `id as i32`: the low 32 bits
as_i32(v) == v.low
\* the driver id a JSON id denotes, if it is one the drivers table can hold
DenotedDriver(v) == IF v.kind = "int" /\ v.wraps = 0 THEN Some(v.low) ELSE None

\* the "data" object of an envelope: id and name are optional members
Payload(id, name) == [id |-> id, name |-> name]

Payloads ==
    { Payload(Some(IntId(0, 1)), None),      \* {id: 1}
      Payload(Some(IntId(0, 999)), None),    \* {id: 999}
      Payload(Some(IntId(1, 1)), None),      \* {id: 4294967297}
      Payload(Some(IntId(0, 1)), Some("Zed")),  \* {id: 1, name: "Zed"}
      Payload(Some(OtherId), None),          \* {id: "1"}
      Payload(None, None) }                  \* {}

Envelope(ip, status, data) == [ip |-> ip, status |-> status, data |-> data]

PassThroughStatuses ==
    { Some("tmp inserted"), Some("tmp inserted by ic"), Some("tmp inserted by fing"),
      Some("insert ic_log"), Some("delete_ic"), Some("bogus"), None }

\* the inbound "message" payloads the model draws from
Envelopes ==
    { Envelope(None, Some("tmp inserted wo pic"), d) : d \in { Some(x) : x \in Payloads } \cup {None} }
    \cup { Envelope(None, st, Some(Payload(Some(IntId(0, 1)), None))) : st \in PassThroughStatuses }
    \cup { Envelope(Some(ip), Some("tmp inserted"), None) : ip \in {"unknown", "", "10.0.0.7"} }

\* the TimeCardEvent messages of the notification service: data.id is an
\* i32 (0 when unset), data.name a string ("" when unset)
ProtoEvents ==
    { Envelope(None, Some(st), d) :
        st \in {"tmp inserted wo pic", "tmp inserted"},
        d \in { Some(Payload(Some(IntId(0, k)), Some(n))) :
                    k \in {0, 1, 999}, n \in {"", "Zed"} } \cup {None} }

\* serde_json::to_string of a Value: the text that parses back to it
to_string(v) == [text |-> v]

NoEvent == [via |-> "none", pc |-> "new", socket |-> "", data |-> None,
            inbound |-> None, lookup |-> "none", handed |-> 0, relayed |-> None,
            resp |-> "none",
            present |-> {},   \* history: the sockets connected when "hello" was emitted
            failed |-> {}]    \* history: the sockets the emit failed for

\* the consumers that may hold a Receiver of the channel
Consumers == {"k1", "k2"}

\* a consumer without a Receiver (main drops the one channel() returns)
NoReceiver == [on |-> FALSE, from |-> 0, next |-> 0, got |-> << >>, missed |-> 0]

\* ------------------------------------------------------------ store queries

\* SELECT id, name FROM drivers WHERE id = ?
SelectDriver(id) == IF id \in DOMAIN DriverTable THEN Some(DriverTable[id]) ELSE None

\* format!("ID:{}", req.driver_id)
FormatId(id) == CASE id = 1 -> "ID:1" [] id = 2 -> "ID:2" [] OTHER -> "ID:999"

\* SELECT ic_id FROM ic_id WHERE ic_id = ? AND deleted = 0
SelectRegistered(tbl, card) ==
    { r \in BagToSet(tbl) : r.ic_id = card /\ r.deleted = Some(0) }

\* Mutant of Upsert: a plain INSERT, as if id were no unique key.
UpsertInsertOnly(tbl, card, drv, t) ==
    tbl \cup { [id |-> card, registered_id |-> Some(drv),
                datetime |-> t + ReservationOffset, deleted |-> Some(0)] }

\* INSERT INTO ic_non_reged (id, registered_id, datetime, deleted)
\* VALUES (?, ?, NOW() + INTERVAL 9 HOUR, 0) ON DUPLICATE KEY UPDATE ...
Upsert(tbl, card, drv, t) ==
    IF \E r \in tbl : r.id = card
    THEN { IF r.id = card
           THEN [r EXCEPT !.registered_id = Some(drv),
                          !.datetime = t + ReservationOffset,
                          !.deleted = Some(0)]
           ELSE r : r \in tbl }
    ELSE tbl \cup { [id |-> card, registered_id |-> Some(drv),
                     datetime |-> t + ReservationOffset, deleted |-> Some(0)] }

\* Mutant of CancelRows: a card without row gets one.
CancelRowsInsertMissing(tbl, card) ==
    IF \E r \in tbl : r.id = card
    THEN { IF r.id = card
           THEN [r EXCEPT !.registered_id = None, !.deleted = Some(0)]
           ELSE r : r \in tbl }
    ELSE tbl \cup { [id |-> card, registered_id |-> None, datetime |-> 0,
                     deleted |-> Some(0)] }

\* Mutant of CancelRows: the reserved driver is kept.
CancelRowsKeepDriver(tbl, card) ==
    { IF r.id = card THEN [r EXCEPT !.deleted = Some(0)] ELSE r : r \in tbl }

\* UPDATE ic_non_reged SET registered_id = NULL, deleted = 0 WHERE id = ?
CancelRows(tbl, card) ==
    { IF r.id = card
      THEN [r EXCEPT !.registered_id = None, !.deleted = Some(0)]
      ELSE r : r \in tbl }

\* UPDATE ic_non_reged SET deleted = 1, registered_id = ? WHERE id = ?
CompleteRows(tbl, card, drv) ==
    { IF r.id = card
      THEN [r EXCEPT !.registered_id = Some(drv), !.deleted = Some(1)]
      ELSE r : r \in tbl }

\* INSERT INTO ic_id (ic_id, emp_id, deleted, date) VALUES (?, ?, 0, NOW())
InsertRegistry(tbl, card, drv, t) ==
    tbl (+) SetToBag({ [ic_id |-> card, emp_id |-> drv, deleted |-> Some(0), date |-> t] })

\* get_all: SELECT ... FROM ic_non_reged n LEFT JOIN ic_id i ON n.id = i.ic_id
\*   AND (i.deleted = 0 OR i.deleted IS NULL) AND i.date >= n.datetime
\* WHERE n.datetime >= ? AND (n.deleted = 0 OR n.deleted IS NULL) AND i.ic_id IS NULL
\* (the result's ORDER BY is not modelled: the rows are returned as a set)
ListPending(since) ==
    { n \in ic_non_reged :
        /\ n.datetime >= since
        /\ (n.deleted = Some(0) \/ n.deleted = None)
        /\ ~ \E i \in BagToSet(ic_id) :
               /\ n.id = i.ic_id
               /\ (i.deleted = Some(0) \/ i.deleted = None)
               /\ i.date >= n.datetime }

\* the start_date values a TimeRangeRequest carries
Sinces == {0, ReservationOffset, ReservationOffset + 1}

\* Mutant of JoinOn: a registry row of the same date does not match.
JoinOnLater(n, i) ==
    /\ n.id = i.ic_id
    /\ (i.deleted = Some(0) \/ i.deleted = None)
    /\ i.date > n.datetime

\* ON n.id = i.ic_id AND (i.deleted = 0 OR i.deleted IS NULL) AND i.date >= n.datetime
JoinOn(n, i) ==
    /\ n.id = i.ic_id
    /\ (i.deleted = Some(0) \/ i.deleted = None)
    /\ i.date >= n.datetime

\* FROM ic_non_reged n LEFT JOIN ic_id i ON ...: a bag of joined rows, one
\* per matching ic_id row, or one with i NULL for a row n that has no match
LeftJoin ==
    LET matched == { [n |-> n, i |-> Some(i)] :
                       n \in ic_non_reged, i \in BagToSet(ic_id) }
        hit == { j \in matched : JoinOn(j.n, j.i[1]) }
        lone == { [n |-> n, i |-> None] :
                    n \in { x \in ic_non_reged : ~ \E j \in hit : j.n = x } }
    IN  [j \in hit \cup lone |-> IF j.i = None THEN 1 ELSE CopiesIn(j.i[1], ic_id)]

\* get_all: the rows of the query, as a bag of ic_non_reged rows
\* WHERE n.datetime >= ? AND (n.deleted = 0 OR n.deleted IS NULL) AND i.ic_id IS NULL
\* (the result's ORDER BY is not modelled)
get_all(since) ==
    LET joined == LeftJoin
        kept == { j \in DOMAIN joined :
                    /\ j.n.datetime >= since
                    /\ (j.n.deleted = Some(0) \/ j.n.deleted = None)
                    /\ j.i = None }
    IN  [n \in { j.n : j \in kept } |-> joined[[n |-> n, i |-> None]]]

\* ------------------------------------------------------------ history

Logged(c, entry) ==
    LET s == Append(trail[c], entry)
    IN  [trail EXCEPT ![c] = IF Len(s) > TrailLen THEN Tail(s) ELSE s]

\* ------------------------------------------------------------ responses

HttpError == [transport |-> "internal", success |-> FALSE, message |-> "",
              driver_name |-> None]
Reply(ok, text, name) == [transport |-> "ok", success |-> ok, message |-> text,
                         driver_name |-> name]

Finish(p, r) == [task EXCEPT ![p].pc = "done", ![p].resp = Some(r)]

\* ------------------------------------------------------------ Init

\* The store holds what the device client left for OtherCard: an untouched
\* pending row (deleted IS NULL) and a soft-deleted registry row.
Init ==
    /\ clients = {}
    /\ utc = 0
    /\ added = {}
    /\ sockets = {}
    /\ closed = {}
    /\ cf_broadcast_url = None
    /\ msg = [m \in Events |-> NoEvent]
    /\ recv = [m \in Events |-> [s \in SocketIds |-> 0]]
    /\ hook = [m \in Events |-> [state |-> "none", posts |-> 0]]
    /\ stream = << >>
    /\ socketio = None
    /\ queue = << >>
    /\ rx = [c \in Consumers |-> NoReceiver]
    /\ ic_non_reged = { [id |-> OtherCard, registered_id |-> None,
                         datetime |-> 0, deleted |-> None] }
    /\ ic_id = SetToBag({ [ic_id |-> OtherCard, emp_id |-> 2, deleted |-> Some(1),
                           date |-> 0] })
    /\ now = 0
    /\ task = [p \in Tasks |-> Idle]
    /\ trail = [c \in Cards |-> << >>]

\* ------------------------------------------------------------ register_ic (Finalize)

\* http_api.rs register_ic, first statement: the request arrives and the
\* UPDATE of ic_non_reged runs (or fails with 500).
RegisterIcUpdate(p, c, d) ==
    /\ UNCHANGED << clientVars, routerVars >>
    /\ task[p] = Idle
    /\ Cardinality({ q \in Tasks : task[q].pc = "ri_insert" })
         + BagCardinality(ic_id) < MaxRegistryRows
    /\ UNCHANGED << ic_id, now >>
    /\ \/ /\ ic_non_reged' = CompleteRows(ic_non_reged, c, d)
          /\ task' = [task EXCEPT ![p] = [Idle EXCEPT !.op = "register_ic",
                          !.pc = "ri_insert", !.ic_id = c, !.driver_id = d,
                          !.wrote = TRUE]]
          /\ trail' = Logged(c, [op |-> "complete", driver |-> 0])
       \/ /\ task' = [task EXCEPT ![p] = [Idle EXCEPT !.op = "register_ic",
                          !.pc = "done", !.ic_id = c, !.driver_id = d,
                          !.resp = Some(HttpError)]]
          /\ UNCHANGED << ic_non_reged, trail >>

\* register_ic, second statement: INSERT INTO ic_id, then the success reply.
RegisterIcInsert(p) ==
    /\ UNCHANGED << clientVars, routerVars >>
    /\ task[p].op = "register_ic" /\ task[p].pc = "ri_insert"
    /\ UNCHANGED << ic_non_reged, now >>
    /\ \/ /\ ic_id' = InsertRegistry(ic_id, task[p].ic_id, task[p].driver_id, now)
          /\ task' = Finish(p, Reply(TRUE, "registered", None))
          /\ trail' = Logged(task[p].ic_id, [op |-> "insert", driver |-> 0])
       \/ /\ task' = Finish(p, HttpError)
          /\ UNCHANGED << ic_id, trail >>

\* ------------------------------------------------------------ register_direct_ic (HTTP ReserveDirect)

StartReserve(p, entry, c, d, nextpc, name) ==
    [task EXCEPT ![p] = [Idle EXCEPT !.op = entry, !.pc = nextpc, !.ic_id = c,
                                     !.driver_id = d, !.driver_name = name,
                                     !.registered = SelectRegistered(ic_id, c) # {}]]

\* 1. Validate driver exists
RegisterDirectIcDriver(p, c, d) ==
    /\ UNCHANGED << clientVars, routerVars >>
    /\ task[p] = Idle
    /\ UNCHANGED << ic_non_reged, ic_id, now, trail >>
    /\ \/ /\ SelectDriver(d) = None
          /\ task' = [StartReserve(p, "register_direct_ic", c, d, "done", None)
                        EXCEPT ![p].resp = Some(Reply(FALSE, "not_found", None))]
       \/ /\ SelectDriver(d) # None
          /\ task' = StartReserve(p, "register_direct_ic", c, d, "rdi_check", SelectDriver(d))
       \/ /\ task' = [StartReserve(p, "register_direct_ic", c, d, "done", None)
                        EXCEPT ![p].resp = Some(HttpError)]

\* 2. Check if IC is already registered in ic_id table
RegisterDirectIcCheck(p) ==
    /\ UNCHANGED << clientVars, routerVars >>
    /\ task[p].op = "register_direct_ic" /\ task[p].pc = "rdi_check"
    /\ UNCHANGED << ic_non_reged, ic_id, now, trail >>
    /\ \/ /\ SelectRegistered(ic_id, task[p].ic_id) # {}
          /\ task' = Finish(p, Reply(FALSE, "conflict", None))
       \/ /\ SelectRegistered(ic_id, task[p].ic_id) = {}
          /\ task' = [task EXCEPT ![p].pc = "rdi_upsert"]
       \/ /\ task' = Finish(p, HttpError)

\* 3. Insert/Update ic_non_reged with registered_id
RegisterDirectIcUpsert(p) ==
    /\ UNCHANGED << clientVars, routerVars >>
    /\ task[p].op = "register_direct_ic" /\ task[p].pc = "rdi_upsert"
    /\ UNCHANGED << ic_id, now >>
    /\ \/ /\ ic_non_reged' = Upsert(ic_non_reged, task[p].ic_id, task[p].driver_id, now)
          /\ task' = [Finish(p, Reply(TRUE, "reserved", task[p].driver_name))
                        EXCEPT ![p].wrote = TRUE,
                               ![p].registered_at_write =
                                   SelectRegistered(ic_id, task[p].ic_id) # {}]
          /\ trail' = Logged(task[p].ic_id, [op |-> "reserve", driver |-> task[p].driver_id])
       \/ /\ task' = Finish(p, HttpError)
          /\ UNCHANGED << ic_non_reged, trail >>

\* ------------------------------------------------------------ register_direct (gRPC ReserveDirect)

\* 1. the driver's name, or "ID:<id>" when there is no such driver
RegisterDirectDriver(p, c, d) ==
    /\ UNCHANGED << clientVars, routerVars >>
    /\ task[p] = Idle
    /\ UNCHANGED << ic_non_reged, ic_id, now, trail >>
    /\ \/ task' = StartReserve(p, "register_direct", c, d, "rd_upsert",
                      IF SelectDriver(d) = None THEN Some(FormatId(d)) ELSE SelectDriver(d))
       \/ task' = [StartReserve(p, "register_direct", c, d, "done", None)
                     EXCEPT ![p].resp = Some(HttpError)]

\* 2. the upsert of ic_non_reged
RegisterDirectUpsert(p) ==
    /\ UNCHANGED << clientVars, routerVars >>
    /\ task[p].op = "register_direct" /\ task[p].pc = "rd_upsert"
    /\ UNCHANGED << ic_id, now >>
    /\ \/ /\ ic_non_reged' = Upsert(ic_non_reged, task[p].ic_id, task[p].driver_id, now)
          /\ task' = [Finish(p, Reply(TRUE, "reserved", task[p].driver_name))
                        EXCEPT ![p].wrote = TRUE,
                               ![p].registered_at_write =
                                   SelectRegistered(ic_id, task[p].ic_id) # {}]
          /\ trail' = Logged(task[p].ic_id, [op |-> "reserve", driver |-> task[p].driver_id])
       \/ /\ task' = Finish(p, HttpError)
          /\ UNCHANGED << ic_non_reged, trail >>

\* ------------------------------------------------------------ cancel_reservation

CancelReservation(p, c) ==
    /\ UNCHANGED << clientVars, routerVars >>
    /\ task[p] = Idle
    /\ UNCHANGED << ic_id, now >>
    /\ \/ /\ ic_non_reged' = CancelRows(ic_non_reged, c)
          /\ task' = [task EXCEPT ![p] = [Idle EXCEPT !.op = "cancel_reservation",
                          !.pc = "done", !.ic_id = c, !.wrote = TRUE,
                          !.resp = Some(Reply(TRUE, "", None))]]
          /\ trail' = Logged(c, [op |-> "cancel", driver |-> 0])
       \/ /\ task' = [task EXCEPT ![p] = [Idle EXCEPT !.op = "cancel_reservation",
                          !.pc = "done", !.ic_id = c, !.resp = Some(HttpError)]]
          /\ UNCHANGED << ic_non_reged, trail >>

\* The reply is sent and the task ends.
Return(p) ==
    /\ UNCHANGED << clientVars, routerVars >>
    /\ task[p].pc = "done"
    /\ task' = [task EXCEPT ![p] = Idle]
    /\ UNCHANGED << ic_non_reged, ic_id, now, trail >>

\* Time passes between store statements.
Tick ==
    /\ UNCHANGED << clientVars, routerVars >>
    /\ now + ReservationOffset <= MaxClock
    /\ now' = now + ReservationOffset
    /\ UNCHANGED << ic_non_reged, ic_id, task, trail >>

\* ------------------------------------------------------------ ClientState callers

AddClient(id, ip) ==
    /\ UNCHANGED << routerVars, regVars >>
    /\ clients' = add_client(clients, id, ip, utc)
    /\ added' = added \cup {id}
    /\ UNCHANGED utc

RemoveClient(id) ==
    /\ UNCHANGED << routerVars, regVars >>
    /\ clients' = remove_client(clients, id)
    /\ added' = added \ {id}
    /\ UNCHANGED utc

UpdateActivity(id) ==
    /\ UNCHANGED << routerVars, regVars >>
    /\ clients' = update_activity(clients, id, utc)
    /\ UNCHANGED << utc, added >>

UpdateIp(id, ip) ==
    /\ UNCHANGED << routerVars, regVars >>
    /\ clients' = update_ip(clients, id, ip, utc)
    /\ UNCHANGED << utc, added >>

UtcTick ==
    /\ UNCHANGED << routerVars, regVars >>
    /\ utc < MaxUtc
    /\ utc' = utc + 1
    /\ UNCHANGED << clients, added >>

NextClients ==
    \/ \E id \in SocketIds, ip \in IpAddresses : AddClient(id, ip)
    \/ \E id \in SocketIds : RemoveClient(id)
    \/ \E id \in SocketIds : UpdateActivity(id)
    \/ \E id \in SocketIds, ip \in IpAddresses : UpdateIp(id, ip)
    \/ UtcTick

SpecClients == Init /\ [][NextClients]_vars

\* ------------------------------------------------------------ Socket.IO server

\* setup_socketio with a webhook url configured, before any socket connects
setup_socketio(url) ==
    /\ UNCHANGED << regVars, hubVars >>
    /\ cf_broadcast_url = None
    /\ sockets = {} /\ closed = {} /\ \A m \in Events : msg[m] = NoEvent
    /\ cf_broadcast_url' = Some(url)
    /\ UNCHANGED << clientVars, sockets, closed, msg, recv, hook, stream >>

\* on_connect: the socket joins the namespace and is registered.
\* (the greeting emitted to it is not a relay and is not counted in recv)
on_connect(s) ==
    /\ UNCHANGED << regVars, hubVars >>
    /\ s \notin sockets \cup closed
    /\ sockets' = sockets \cup {s}
    /\ clients' = add_client(clients, s, "unknown", utc)
    /\ added' = added \cup {s}
    /\ UNCHANGED << utc, closed, cf_broadcast_url, msg, recv, hook, stream >>

\* on_disconnect
on_disconnect(s) ==
    /\ UNCHANGED << regVars, hubVars >>
    /\ s \in sockets
    /\ sockets' = sockets \ {s}
    /\ closed' = closed \cup {s}
    /\ clients' = remove_client(clients, s)
    /\ added' = added \ {s}
    /\ UNCHANGED << utc, cf_broadcast_url, msg, recv, hook, stream >>

\* A "message" event of a connected socket is received; its handler is queued.
Receive(m, s, env) ==
    /\ UNCHANGED << regVars, hubVars >>
    /\ msg[m] = NoEvent
    /\ s \in sockets
    /\ msg' = [msg EXCEPT ![m] = [NoEvent EXCEPT !.via = "socket", !.pc = "handler",
                                     !.socket = s, !.data = Some(env),
                                     !.inbound = Some(env)]]
    /\ UNCHANGED << clientVars, sockets, closed, cf_broadcast_url, recv, hook, stream >>

\* Mutant of Touched: update_ip is called with whatever ip the message carries.
TouchedAnyIp(cl, s, env) ==
    LET t == update_activity(cl, s, utc)
    IN  IF env.ip # None THEN update_ip(t, s, env.ip[1], utc) ELSE t

\* the message handler's registry updates (socketio_server.rs 87-96)
Touched(cl, s, env) ==
    LET t == update_activity(cl, s, utc)
    IN  IF env.ip # None /\ env.ip[1] # "unknown" /\ env.ip[1] # ""
        THEN update_ip(t, s, env.ip[1], utc)
        ELSE t

\* Mutant of NeedsLookup: the status tag is not looked at.
NeedsLookupAnyStatus(env) ==
    /\ env.data # None
    /\ env.data[1].id # None
    /\ env.data[1].name = None
    /\ as_i64(env.data[1].id[1]) # None

\* handle_message: has_id && !has_name, and the id is an i64
NeedsLookup(env) ==
    /\ env.status = Some("tmp inserted wo pic")
    /\ env.data # None
    /\ env.data[1].id # None
    /\ env.data[1].name = None
    /\ as_i64(env.data[1].id[1]) # None

\* inner_data["name"] = json!(name)
WithName(env, name) == [env EXCEPT !.data = Some([env.data[1] EXCEPT !.name = Some(name)])]

\* Mutant of Relayed: a failed lookup ends the handler without the relay.
RelayedUnlessError(m, env, how, failing) ==
    IF how = "error"
    THEN /\ msg' = [msg EXCEPT ![m].pc = "done", ![m].lookup = how, ![m].resp = "ok"]
         /\ UNCHANGED << recv, hook >>
    ELSE /\ recv' = [recv EXCEPT ![m] = [s \in SocketIds |->
                        recv[m][s] + (IF s \in sockets \ failing THEN 1 ELSE 0)]]
         /\ msg' = [msg EXCEPT ![m].pc = "done", ![m].data = Some(env), ![m].lookup = how,
                                ![m].handed = msg[m].handed + 1,
                                ![m].relayed = Some(to_string(env)), ![m].resp = "ok"]
         /\ hook' = IF cf_broadcast_url # None
                    THEN [hook EXCEPT ![m] = [state |-> "spawned", posts |-> 0]]
                    ELSE hook

\* Mutant of Relayed: the broadcast reaches the sender as well.
RelayedToAll(m, env, how, failing) ==
    /\ recv' = [recv EXCEPT ![m] = [s \in SocketIds |->
                    recv[m][s]
                    + (IF s \in sockets \ failing THEN 1 ELSE 0)
                    + (IF s \in sockets \ failing /\ s = msg[m].socket THEN 1 ELSE 0)]]
    /\ msg' = [msg EXCEPT ![m].pc = "done", ![m].data = Some(env), ![m].lookup = how,
                           ![m].handed = msg[m].handed + 1,
                           ![m].relayed = Some(to_string(env)), ![m].resp = "ok",
                           ![m].present = sockets, ![m].failed = failing]
    /\ hook' = IF cf_broadcast_url # None
               THEN [hook EXCEPT ![m] = [state |-> "spawned", posts |-> 0]]
               ELSE hook

\* broadcast_hello and the spawn of notify_cf_worker (socketio_server.rs
\* 179-189, 206-218): socket.broadcast().emit reaches every other connected
\* socket, socket.emit the sender; the emits to the sockets in failing fail.
Relayed(m, env, how, failing) ==
    /\ recv' = [recv EXCEPT ![m] = [s \in SocketIds |->
                    recv[m][s]
                    + (IF s \in sockets \ failing /\ s # msg[m].socket THEN 1 ELSE 0)
                    + (IF s \in sockets \ failing /\ s = msg[m].socket THEN 1 ELSE 0)]]
    /\ msg' = [msg EXCEPT ![m].pc = "done", ![m].data = Some(env), ![m].lookup = how,
                           ![m].handed = msg[m].handed + 1,
                           ![m].relayed = Some(to_string(env)), ![m].resp = "ok",
                           ![m].present = sockets, ![m].failed = failing]
    /\ hook' = IF cf_broadcast_url # None
               THEN [hook EXCEPT ![m] = [state |-> "spawned", posts |-> 0]]
               ELSE hook

\* The handler of a message runs: the registry updates, then handle_message
\* up to its first await (the driver lookup) or, with no lookup, to its end.
OnMessage(m) ==
    /\ UNCHANGED << regVars, hubVars >>
    /\ msg[m].via = "socket" /\ msg[m].pc = "handler"
    /\ clients' = Touched(clients, msg[m].socket, msg[m].data[1])
    /\ UNCHANGED << utc, added, sockets, closed, cf_broadcast_url, stream >>
    /\ \/ /\ NeedsLookup(msg[m].data[1])
          /\ msg' = [msg EXCEPT ![m].pc = "lookup"]
          /\ UNCHANGED << recv, hook >>
       \/ /\ ~NeedsLookup(msg[m].data[1])
          /\ \E failing \in SUBSET sockets : Relayed(m, msg[m].data[1], "none", failing)

\* get_driver_name(&db, id as i32) returns and handle_message runs to its end.
get_driver_name(m) ==
    /\ UNCHANGED << regVars, hubVars >>
    /\ msg[m].via = "socket" /\ msg[m].pc = "lookup"
    /\ UNCHANGED << clientVars, sockets, closed, cf_broadcast_url, stream >>
    /\ LET env == msg[m].data[1]
           row == SelectDriver(as_i32(env.data[1].id[1]))
       IN  \E failing \in SUBSET sockets :
            \/ /\ row # None
               /\ Relayed(m, WithName(env, row[1]), "found", failing)
            \/ /\ row = None
               /\ Relayed(m, env, "absent", failing)
            \/ Relayed(m, env, "error", failing)

\* Mutant of Posted: a POST that did not get a 2xx is tried again.
PostedWithRetry(h, outcome) ==
    [state |-> IF outcome = "2xx" THEN outcome ELSE "spawned", posts |-> h.posts + 1]

\* the match on send().await: every arm only logs
Posted(h, outcome) == [state |-> outcome, posts |-> h.posts + 1]

\* notify_cf_worker, detached: one POST (5 s timeout), whose outcome is only logged
notify_cf_worker(m) ==
    /\ UNCHANGED << regVars, hubVars >>
    /\ hook[m].state = "spawned"
    /\ \E outcome \in {"2xx", "non2xx", "error", "timeout"} :
          hook' = [hook EXCEPT ![m] = Posted(hook[m], outcome)]
    /\ UNCHANGED << clientVars, sockets, closed, cf_broadcast_url, msg, recv, stream >>

\* ------------------------------------------------------------ delete_ic (RequestDelete)

\* the ic_id values DeleteIcRequest carries: a card the store has no row
\* of, and OtherCard in lower and in upper case
DeleteIds == {"04a1b2", "c2", OtherCard}

\* str::to_uppercase
to_uppercase(id) == CASE id = "04a1b2" -> "04A1B2" [] id = "c2" -> "C2" [] OTHER -> id

\* serde_json::from_str: the value a text encodes
from_str(t) == t.text

\* json!({"status": "delete_ic", "ic": ic_id})
DeleteCommand(ic) == [status |-> "delete_ic", ic |-> ic]

\* Mutant of DoubleEncoded: the object is serialized once.
SingleEncoded(data) == to_string(data)

\* json_str = to_string(&data); double_encoded = to_string(&json_str)
DoubleEncoded(data) == to_string(to_string(data))

\* Mutant of DeleteIcStore: the registry rows of the card are deleted.
DeleteIcRemoveRows(tbl, ic) ==
    LET keep == { r \in BagToSet(tbl) : r.ic_id # ic }
    IN  [r \in keep |-> CopiesIn(r, tbl)]

\* delete_ic issues no statement: the table it is named after is as before
DeleteIcStore(tbl, ic) == tbl

\* ICNonRegServiceImpl::with_socketio: the service is built with the server's
\* SocketIo handle (ICNonRegServiceImpl::new, which main calls, leaves None)
with_socketio ==
    /\ UNCHANGED << regVars, clientVars >>
    /\ socketio = None
    /\ sockets = {} /\ closed = {} /\ \A m \in Events : msg[m] = NoEvent
    /\ socketio' = Some("io")
    /\ UNCHANGED << sockets, closed, cf_broadcast_url, msg, recv, hook, stream, queue, rx >>

\* delete_ic: no await between its first and last statement. ns.emit sends to
\* every socket of namespace "/" and returns Err when a send failed.
\* (io.of("/") is Some: setup_socketio registers the namespace)
delete_ic(m, id) ==
    /\ UNCHANGED << clientVars, now, task, trail >>
    /\ msg[m] = NoEvent
    /\ ic_non_reged' = ic_non_reged
    /\ ic_id' = DeleteIcStore(ic_id, to_uppercase(id))
    /\ UNCHANGED << sockets, closed, cf_broadcast_url, hook, stream, hubVars >>
    /\ LET called == [NoEvent EXCEPT !.via = "delete_ic", !.pc = "done",
                                      !.inbound = Some(id)]
           payload == DoubleEncoded(DeleteCommand(to_uppercase(id)))
       IN  IF socketio = None
           THEN /\ msg' = [msg EXCEPT ![m] = [called EXCEPT !.resp = "not_configured"]]
                /\ UNCHANGED recv
           ELSE \E failing \in SUBSET sockets :
                /\ recv' = [recv EXCEPT ![m] = [s \in SocketIds |->
                                recv[m][s] + (IF s \in sockets \ failing THEN 1 ELSE 0)]]
                /\ msg' = [msg EXCEPT ![m] = [called EXCEPT
                                !.handed = 1, !.relayed = Some(payload),
                                !.present = sockets, !.failed = failing,
                                !.resp = IF failing = {} THEN "ok" ELSE "emit_failed"]]

\* ------------------------------------------------------------ broadcast channel

\* Sender::receiver_count
receiver_count == Cardinality({ c \in Consumers : rx[c].on })

\* Sender::send: Err(SendError) and the value is dropped when no Receiver
\* exists; otherwise the value is stored, overwriting the oldest slot
send(q, v) == IF receiver_count = 0 THEN q ELSE Append(q, v)

\* the position of the oldest value the channel still holds
Oldest(q) == IF Len(q) > ChannelCapacity THEN Len(q) - ChannelCapacity + 1 ELSE 1

\* Mutant of AfterSend: the SendError is turned into the call's error.
AfterSendPropagated(accepted) == IF accepted THEN "ok" ELSE "internal"

\* let _ = self.broadcaster.send(event); Ok(..)
AfterSend(accepted) == "ok"

\* the broadcaster.send of a publishing call m, and what the call answers
Publish(m) ==
    /\ stream' = Append(stream, m)
    /\ queue' = send(queue, Len(stream) + 1)
    /\ UNCHANGED << socketio, rx >>

\* calls that may still publish (keeps stream within MaxPublished)
CanPublish ==
    Len(stream) + Cardinality({ m \in Events : msg[m].via = "resolve_and_broadcast"
                                                /\ msg[m].pc = "lookup" }) < MaxPublished

\* Sender::subscribe: the Receiver sees the values sent after this call
subscribe(c) ==
    /\ UNCHANGED << regVars, clientVars >>
    /\ ~rx[c].on
    /\ rx' = [rx EXCEPT ![c] = [on |-> TRUE, from |-> Len(queue) + 1,
                                 next |-> Len(queue) + 1, got |-> << >>, missed |-> 0]]
    /\ UNCHANGED << sockets, closed, cf_broadcast_url, msg, recv, hook, stream, socketio, queue >>

\* Receiver::recv: Lagged(n) when the next value was overwritten (the
\* Receiver then continues at the oldest value held), else the next value
recv_next(c) ==
    /\ UNCHANGED << regVars, clientVars >>
    /\ rx[c].on
    /\ rx[c].next <= Len(queue)
    /\ rx' = IF rx[c].next < Oldest(queue)
              THEN [rx EXCEPT ![c].missed = rx[c].missed + (Oldest(queue) - rx[c].next),
                              ![c].next = Oldest(queue)]
              ELSE [rx EXCEPT ![c].got = Append(rx[c].got, queue[rx[c].next]),
                              ![c].next = rx[c].next + 1]
    /\ UNCHANGED << sockets, closed, cf_broadcast_url, msg, recv, hook, stream, socketio, queue >>

\* the Receiver is dropped
drop_receiver(c) ==
    /\ UNCHANGED << regVars, clientVars >>
    /\ rx[c].on
    /\ rx' = [rx EXCEPT ![c] = NoReceiver]
    /\ UNCHANGED << sockets, closed, cf_broadcast_url, msg, recv, hook, stream, socketio, queue >>

\* ------------------------------------------------------------ notification service

\* broadcast_event
broadcast_event(m, ev) ==
    /\ UNCHANGED regVars
    /\ msg[m] = NoEvent
    /\ CanPublish
    /\ Publish(m)
    /\ msg' = [msg EXCEPT ![m] = [NoEvent EXCEPT !.via = "broadcast_event", !.pc = "done",
                                     !.data = Some(ev), !.inbound = Some(ev),
                                     !.handed = 1, !.relayed = Some(to_string(ev)),
                                     !.resp = AfterSend(receiver_count > 0)]]
    /\ UNCHANGED << clientVars, sockets, closed, cf_broadcast_url, recv, hook >>

\* resolve_and_broadcast: data.id != 0 && data.name.is_empty()
NeedsResolve(ev) ==
    /\ ev.status = Some("tmp inserted wo pic")
    /\ ev.data # None
    /\ as_i32(ev.data[1].id[1]) # 0
    /\ ev.data[1].name = Some("")

\* resolve_and_broadcast up to its await (the SELECT), or to its end
resolve_and_broadcast(m, ev) ==
    /\ UNCHANGED regVars
    /\ msg[m] = NoEvent
    /\ CanPublish
    /\ UNCHANGED << clientVars, sockets, closed, cf_broadcast_url, recv, hook >>
    /\ \/ /\ NeedsResolve(ev)
          /\ msg' = [msg EXCEPT ![m] = [NoEvent EXCEPT !.via = "resolve_and_broadcast",
                                           !.pc = "lookup", !.data = Some(ev),
                                           !.inbound = Some(ev)]]
          /\ UNCHANGED << stream, hubVars >>
       \/ /\ ~NeedsResolve(ev)
          /\ Publish(m)
          /\ msg' = [msg EXCEPT ![m] = [NoEvent EXCEPT !.via = "resolve_and_broadcast",
                                           !.pc = "done", !.data = Some(ev),
                                           !.inbound = Some(ev), !.handed = 1,
                                           !.relayed = Some(to_string(ev)),
                                           !.resp = AfterSend(receiver_count > 0)]]

\* the SELECT of resolve_and_broadcast returns (notification.rs 53-61, 76-78)
ResolveDriver(m) ==
    /\ UNCHANGED regVars
    /\ msg[m].via = "resolve_and_broadcast" /\ msg[m].pc = "lookup"
    /\ UNCHANGED << clientVars, sockets, closed, cf_broadcast_url, recv, hook >>
    /\ LET ev == msg[m].data[1]
           row == SelectDriver(as_i32(ev.data[1].id[1]))
           out == IF row # None THEN WithName(ev, row[1]) ELSE ev
       IN  \/ /\ Publish(m)
              /\ msg' = [msg EXCEPT ![m].pc = "done", ![m].data = Some(out),
                                     ![m].lookup = IF row # None THEN "found" ELSE "absent",
                                     ![m].handed = 1,
                                     ![m].relayed = Some(to_string(out)),
                                     ![m].resp = AfterSend(receiver_count > 0)]
           \* map_err(|e| Status::internal(...))?
           \/ /\ msg' = [msg EXCEPT ![m].pc = "done", ![m].lookup = "error",
                                     ![m].resp = "internal"]
              /\ UNCHANGED << stream, hubVars >>

RouterTick ==
    /\ UNCHANGED << regVars, hubVars >>
    /\ utc < MaxUtc
    /\ utc' = utc + 1
    /\ UNCHANGED << clients, added, sockets, closed, cf_broadcast_url, msg, recv, hook, stream >>

NextRouter ==
    \/ setup_socketio("https://worker/broadcast")
    \/ \E s \in SocketIds : on_connect(s)
    \/ \E s \in SocketIds : on_disconnect(s)
    \/ \E m \in Events, s \in SocketIds, env \in Envelopes : Receive(m, s, env)
    \/ \E m \in Events : OnMessage(m)
    \/ \E m \in Events : get_driver_name(m)
    \/ \E m \in Events : notify_cf_worker(m)
    \/ \E m \in Events, ev \in ProtoEvents : broadcast_event(m, ev)
    \/ \E m \in Events, ev \in ProtoEvents : resolve_and_broadcast(m, ev)
    \/ \E m \in Events : ResolveDriver(m)
    \/ with_socketio
    \/ \E m \in Events, id \in DeleteIds : delete_ic(m, id)
    \/ RouterTick

SpecRouter == Init /\ [][NextRouter]_vars

\* The runtime polls every spawned handler, and a store round trip ends
\* (with a row, without one, or with an error).
FairSpecRouter ==
    /\ SpecRouter
    /\ \A m \in Events : WF_vars(OnMessage(m))
    /\ \A m \in Events : WF_vars(get_driver_name(m))

\* The reply of a notification call is sent and the call ends.
Replied(m) ==
    /\ UNCHANGED << regVars, clientVars >>
    /\ msg[m].via \in {"broadcast_event", "resolve_and_broadcast"} /\ msg[m].pc = "done"
    /\ msg' = [msg EXCEPT ![m] = NoEvent]
    /\ UNCHANGED << sockets, closed, cf_broadcast_url, recv, hook, stream, hubVars >>

NextStream ==
    \/ \E m \in Events, ev \in ProtoEvents : broadcast_event(m, ev)
    \/ \E m \in Events, ev \in ProtoEvents : resolve_and_broadcast(m, ev)
    \/ \E m \in Events : ResolveDriver(m)
    \/ \E m \in Events : Replied(m)
    \/ \E c \in Consumers : subscribe(c)
    \/ \E c \in Consumers : recv_next(c)
    \/ \E c \in Consumers : drop_receiver(c)

SpecStream == Init /\ [][NextStream]_vars

NextReg ==
    \/ \E p \in Tasks, c \in RequestCards, d \in FinalizeDriverIds : RegisterIcUpdate(p, c, d)
    \/ \E p \in Tasks : RegisterIcInsert(p)
    \/ \E p \in Tasks, c \in RequestCards, d \in DriverIds : RegisterDirectIcDriver(p, c, d)
    \/ \E p \in Tasks : RegisterDirectIcCheck(p)
    \/ \E p \in Tasks : RegisterDirectIcUpsert(p)
    \/ \E p \in Tasks, c \in RequestCards, d \in DriverIds : RegisterDirectDriver(p, c, d)
    \/ \E p \in Tasks : RegisterDirectUpsert(p)
    \/ \E p \in Tasks, c \in RequestCards : CancelReservation(p, c)
    \/ \E p \in Tasks : Return(p)
    \/ Tick

SpecReg == Init /\ [][NextReg]_vars

Next == NextClients \/ NextRouter \/ NextStream \/ NextReg

Spec == Init /\ [][Next]_vars

\* ------------------------------------------------------------ registration claims

ReserveOps == {"register_direct", "register_direct_ic"}

PendingRows(c) == { r \in ic_non_reged : r.id = c }

\* the ic_id rows of card c, with their multiplicities
RegistryRows(c) ==
    [r \in { x \in BagToSet(ic_id) : x.ic_id = c } |-> CopiesIn(r, ic_id)]

LiveRegistryRows(c) ==
    [r \in { x \in BagToSet(ic_id) : x.ic_id = c /\ x.deleted = Some(0) }
        |-> CopiesIn(r, ic_id)]

Returned(p) == task[p].pc = "done" /\ task[p].resp # None /\ task[p].resp[1].transport = "ok"

\* C1: once a card has been reserved (it has a pending row), ReserveDirect
\* and Finalize calls for it, however their statements interleave, leave at
\* most one ic_id row for the card.
C1_NoTwoRegistryRows ==
    \A c \in RequestCards :
        PendingRows(c) # {} => BagCardinality(RegistryRows(c)) <= 1

\* C2: after any number of Finalize calls for one card the registry holds
\* at most one non-deleted record for it.
C2_FinalizeTwiceOneRecord ==
    \A c \in Cards : BagCardinality(LiveRegistryRows(c)) <= 1

\* C3: a ReserveDirect call naming a driver that is not in the drivers table
\* answers NotFound and has written no pending row, on both entry points.
C3_AbsentDriverNotFound ==
    \A p \in Tasks :
        (Returned(p) /\ task[p].op \in ReserveOps /\ SelectDriver(task[p].driver_id) = None)
            => (task[p].resp[1].message = "not_found" /\ ~task[p].resp[1].success
                /\ ~task[p].wrote)

\* C4: a ReserveDirect call (for an existing driver) on a card that already
\* has a non-deleted registry record answers Conflict and has written nothing,
\* on both entry points.
C4_RegisteredCardConflict ==
    \A p \in Tasks :
        (Returned(p) /\ task[p].op \in ReserveOps /\ task[p].registered
                     /\ SelectDriver(task[p].driver_id) # None)
            => (task[p].resp[1].message = "conflict" /\ ~task[p].resp[1].success
                /\ ~task[p].wrote)

\* C5: a card has never two pending rows; once a ReserveDirect has succeeded
\* for it, it has exactly one; and while the last write to the card is the
\* upsert of ReserveDirect(card, d), that row holds d with deleted = 0.
C5_OnePendingRow ==
    \A c \in RequestCards :
        /\ Cardinality(PendingRows(c)) <= 1
        /\ (\E i \in 1 .. Len(trail[c]) : trail[c][i].op = "reserve")
              => Cardinality(PendingRows(c)) = 1
        /\ (trail[c] # << >> /\ trail[c][Len(trail[c])].op = "reserve")
              => \A r \in PendingRows(c) :
                    /\ r.registered_id = Some(trail[c][Len(trail[c])].driver)
                    /\ r.deleted = Some(0)

\* ReserveDirect(c1, 1) then ReserveDirect(c1, 2): one row, holding driver 2.
C5_Witness ==
    /\ trail["c1"] = << [op |-> "reserve", driver |-> 1], [op |-> "reserve", driver |-> 2] >>
    /\ \E r \in PendingRows("c1") : r.registered_id = Some(2)

\* C6: when the last two writes to a card are a successful ReserveDirect and
\* then a CancelReservation, ListPending(0) returns the card with no driver.
C6_CancelledIsListed ==
    \A c \in RequestCards :
        (/\ Len(trail[c]) >= 2
         /\ trail[c][Len(trail[c]) - 1].op = "reserve"
         /\ trail[c][Len(trail[c])].op = "cancel")
            => \E n \in ListPending(0) : n.id = c /\ n.registered_id = None

\* a reservation cancelled although the card already has a live registry row
C6_Witness ==
    /\ Len(trail["c1"]) >= 2
    /\ trail["c1"][Len(trail["c1"]) - 1].op = "reserve"
    /\ trail["c1"][Len(trail["c1"])].op = "cancel"
    /\ \E n \in ListPending(0) : n.id = "c1"
    /\ BagCardinality(LiveRegistryRows("c1")) > 0

\* ------------------------------------------------------------ ClientState claims

\* C7: whatever the interleaving of add, remove, touch and update_ip, list()
\* holds exactly the sessions added and not removed since, one entry each,
\* and count() is the length of list().
C7_ListIsConnected ==
    LET list == get_all_clients
    IN  /\ { list[i].socket_id : i \in 1 .. Len(list) } = added
        /\ \A id \in added :
              Cardinality({ i \in 1 .. Len(list) : list[i].socket_id = id }) = 1
        /\ get_client_count = Len(list)

\* s1 was added, touched after the clock moved, and added again; s2 was
\* added and removed.
C7_Witness ==
    /\ added = {"s1"}
    /\ \E c \in clients : c.socket_id = "s1" /\ c.connected_at = MaxUtc
                          /\ c.ip_address = "10.0.0.7"
    /\ Len(get_all_clients) = 1

\* ------------------------------------------------------------ relay claims

\* C8: a received "message" is handed to broadcast_hello exactly once,
\* whatever its status and whatever the driver lookup returns: never twice,
\* once when its handler has ended, and its handler does end.
C8_HandedExactlyOnce ==
    /\ [](\A m \in Events :
            msg[m].via = "socket" =>
                /\ msg[m].handed <= 1
                /\ (msg[m].pc = "done" => msg[m].handed = 1))
    /\ \A m \in Events :
            (msg[m].via = "socket" /\ msg[m].pc = "handler")
                ~> (msg[m].pc = "done" /\ msg[m].handed = 1)

\* a message whose driver lookup failed has been relayed
C8_Witness ==
    \E m \in Events :
        /\ msg[m].via = "socket" /\ msg[m].pc = "done"
        /\ msg[m].lookup = "error" /\ msg[m].handed = 1

\* the envelopes C9 speaks of: "tmp inserted wo pic", a numeric id, no name
EnrichCase(env) ==
    /\ env.status = Some("tmp inserted wo pic")
    /\ env.data # None
    /\ env.data[1].id # None /\ env.data[1].id[1].kind = "int"
    /\ env.data[1].name = None

\* the name the drivers table holds for the id of the envelope, if any
DriverOf(env) ==
    LET d == DenotedDriver(env.data[1].id[1])
    IN  IF d = None THEN None ELSE SelectDriver(d[1])

\* C9: for such an envelope (and a lookup that did not fail), the relayed
\* envelope carries the driver's name when the drivers table has the id, and
\* is the inbound envelope, without a name, when it has not; it is relayed
\* in both cases.
C9_NameIffDriverExists ==
    \A m \in Events :
        (msg[m].via = "socket" /\ msg[m].pc = "done" /\ EnrichCase(msg[m].inbound[1])
                               /\ msg[m].lookup # "error")
            => /\ msg[m].handed = 1
               /\ msg[m].relayed =
                    Some(to_string(IF DriverOf(msg[m].inbound[1]) # None
                                   THEN WithName(msg[m].inbound[1], DriverOf(msg[m].inbound[1])[1])
                                   ELSE msg[m].inbound[1]))

\* C10: a store failure in the driver lookup neither stops the relay nor
\* becomes an error of the call, for the socket message handler and for
\* resolve_and_broadcast.
C10_LookupFailureStillRelays ==
    \A m \in Events :
        (msg[m].pc = "done" /\ msg[m].lookup = "error")
            => (msg[m].handed = 1 /\ msg[m].resp = "ok")

\* ------------------------------------------------------------ sink claims

\* the publishing calls of the internal stream that were given event m
InStream(m) == \E i \in 1 .. Len(stream) : stream[i] = m

\* the webhook task of event m was started
HookStarted(m) == hook[m].state # "none"

\* C11: a relayed inbound "message" has reached the three sinks: the
\* "hello" emit to the sessions, the internal stream (broadcaster.send), and
\* the webhook task when a url is configured.
C11_ThreeSinks ==
    \A m \in Events :
        (msg[m].via = "socket" /\ msg[m].pc = "done")
            => /\ msg[m].handed = 1
               /\ InStream(m)
               /\ (cf_broadcast_url # None => HookStarted(m))

\* C12: a finished delete_ic call of a service that has a SocketIo handle has delivered its command the way a
\* relayed inbound event is delivered: emitted to the sessions, handed to the
\* webhook when one is configured, and a failed emit does not change the
\* answer. (the internal stream, which the relay of inbound events does not
\* reach either, is left out of the comparison)
C12_DeleteDeliveredLikeRelay ==
    \A m \in Events :
        (msg[m].via = "delete_ic" /\ msg[m].pc = "done" /\ socketio # None)
            => /\ msg[m].handed = 1
               /\ (cf_broadcast_url # None => HookStarted(m))
               /\ msg[m].resp = "ok"

\* C13: when "hello" has been emitted for an event (by handle_message or by
\* delete_ic), every connected socket whose emit did not fail has received
\* it once, and the call answers success.
C13_FailedEmitIsIsolated ==
    \A m \in Events :
        (msg[m].via \in {"socket", "delete_ic"} /\ msg[m].pc = "done" /\ msg[m].handed = 1)
            => /\ \A s \in msg[m].present \ msg[m].failed : recv[m][s] = 1
               /\ msg[m].resp = "ok"

\* C14: the webhook of an event is posted at most once; its task exists only
\* for a relayed message whose handler has ended with success, whatever the
\* POST's outcome; with no url configured there is no task and no POST.
C14_WebhookAtMostOnce ==
    \A m \in Events :
        /\ hook[m].posts <= 1
        /\ HookStarted(m) => /\ cf_broadcast_url # None
                              /\ msg[m].via = "socket" /\ msg[m].pc = "done"
                              /\ msg[m].handed = 1 /\ msg[m].resp = "ok"
        /\ hook[m].state \in {"none", "spawned"} => hook[m].posts = 0
        /\ cf_broadcast_url = None => hook[m].posts = 0

\* the POST of a relayed message failed (non-2xx, transport error, timeout)
C14_Witness ==
    \E m \in Events :
        /\ hook[m].state \in {"non2xx", "error", "timeout"} /\ hook[m].posts = 1
        /\ msg[m].pc = "done" /\ msg[m].resp = "ok"

\* ------------------------------------------------------------ internal stream claims

Publishers == {"broadcast_event", "resolve_and_broadcast"}

\* C15: a call that has published answers success whether or not a consumer
\* is attached, and publishing is never held up by the state of the channel;
\* a value sent while no Receiver exists is not stored; a consumer that has
\* not lagged has received, in publish order, every value stored since it
\* subscribed, up to its position, whatever the other consumers have lost;
\* a consumer that lagged has lost only values and keeps the order.
C15_PublisherNeverBlocked ==
    /\ [](\A m \in Events :
            /\ (msg[m].via \in Publishers /\ msg[m].pc = "done" /\ msg[m].handed = 1)
                  => msg[m].resp = "ok"
            /\ (msg[m].via = "resolve_and_broadcast" /\ msg[m].pc = "lookup")
                  => ENABLED ResolveDriver(m)
            /\ (msg[m] = NoEvent /\ CanPublish)
                  => \A ev \in ProtoEvents : ENABLED broadcast_event(m, ev))
    /\ [](\A c \in Consumers :
            rx[c].on =>
                /\ rx[c].missed = 0 => rx[c].got = SubSeq(queue, rx[c].from, rx[c].next - 1)
                /\ \A i \in 1 .. Len(rx[c].got) :
                      /\ \E j \in rx[c].from .. Len(queue) : queue[j] = rx[c].got[i]
                      /\ i > 1 => rx[c].got[i - 1] < rx[c].got[i])
    /\ [][(receiver_count = 0 /\ stream' # stream) => queue' = queue]_vars

\* one value was dropped with no consumer attached; then one consumer lagged
\* and lost a value while the other received more values than the channel holds
C15_Witness ==
    /\ Len(stream) > Len(queue)
    /\ \E c, d \in Consumers :
          /\ rx[c].on /\ rx[c].missed > 0
          /\ rx[d].on /\ rx[d].missed = 0 /\ Len(rx[d].got) > ChannelCapacity

\* ------------------------------------------------------------ delete_ic claims

DeleteDone(m) == msg[m].via = "delete_ic" /\ msg[m].pc = "done"

\* C16: when "hello" was emitted with no session connected (by
\* handle_message after its sender left, or by delete_ic), the call answers
\* success, no socket has received anything, and the webhook task has been
\* started if a url is configured.
C16_ZeroSessionsRelay ==
    \A m \in Events :
        (msg[m].via \in {"socket", "delete_ic"} /\ msg[m].pc = "done"
            /\ msg[m].handed = 1 /\ msg[m].present = {})
            => /\ msg[m].resp = "ok"
               /\ \A s \in SocketIds : recv[m][s] = 0
               /\ (cf_broadcast_url # None => HookStarted(m))

\* C17: a delete_ic call of a service without SocketIo handle emits nothing
\* and answers with the transport-level error Unavailable.
C17_NotConfiguredIsUnavailable ==
    \A m \in Events :
        (DeleteDone(m) /\ socketio = None)
            => /\ msg[m].handed = 0
               /\ \A s \in SocketIds : recv[m][s] = 0
               /\ msg[m].resp = "unavailable"

\* C18: a step in which a delete_ic call runs, whatever it answers, leaves
\* ic_non_reged and ic_id as they were.
C18_DeleteTouchesNoTable ==
    [][\A m \in Events :
          (msg[m] = NoEvent /\ msg'[m].via = "delete_ic")
              => (ic_non_reged' = ic_non_reged /\ ic_id' = ic_id)]_vars

\* delete_ic has run for a card the store holds rows of, and its emit failed
C18_Witness ==
    \E m \in Events :
        /\ DeleteDone(m) /\ msg[m].resp = "emit_failed"
        /\ to_uppercase(msg[m].inbound[1]) = OtherCard
        /\ \E r \in BagToSet(ic_id) : r.ic_id = OtherCard

\* a JSON text that encodes a string, not an object
IsString(v) == DOMAIN v = {"text"}

\* C19 as stated: the emitted payload decodes to a string, which decodes to
\* the object with status "delete_ic" and ic equal to the requested ic_id.
C19_DoubleEncodedRequestedId ==
    \A m \in Events :
        (DeleteDone(m) /\ msg[m].handed = 1)
            => LET once == from_str(msg[m].relayed[1])
               IN  /\ IsString(once)
                   /\ from_str(once) = [status |-> "delete_ic", ic |-> msg[m].inbound[1]]

\* C19 as amended: the emitted payload decodes to a string, which decodes to
\* the object with status "delete_ic" and ic equal to the requested ic_id
\* converted to upper case.
C19_DoubleEncodedUpperCase ==
    \A m \in Events :
        (DeleteDone(m) /\ msg[m].handed = 1)
            => LET once == from_str(msg[m].relayed[1])
               IN  /\ IsString(once)
                   /\ ~IsString(from_str(once))
                   /\ from_str(once) = [status |-> "delete_ic",
                                         ic |-> to_uppercase(msg[m].inbound[1])]

\* a delete command was emitted for an id given in lower case
C19_Witness ==
    \E m \in Events :
        /\ DeleteDone(m) /\ msg[m].handed = 1 /\ msg[m].relayed # None
        /\ msg[m].inbound[1] = "04a1b2"

\* ------------------------------------------------------------ cancel_reservation claims

\* C20: a step in which cancel_reservation runs and the store answers
\* reports success; after it the card's row, if there is one, has no driver
\* and deleted = 0, so that cancelling again changes nothing; the rows of
\* other cards and the registry are as before; and for a card without
\* pending row no row is created and the table is as before.
C20_CancelIdempotent ==
    [][\A p \in Tasks :
          (/\ task[p] = Idle
           /\ task'[p].op = "cancel_reservation"
           /\ task'[p].resp # None
           /\ task'[p].resp[1].transport = "ok")
              => /\ task'[p].resp[1].success
                 /\ \A r \in ic_non_reged' :
                       r.id = task'[p].ic_id
                          => (r.registered_id = None /\ r.deleted = Some(0))
                 /\ CancelRows(ic_non_reged', task'[p].ic_id) = ic_non_reged'
                 /\ { r \in ic_non_reged' : r.id # task'[p].ic_id }
                      = { r \in ic_non_reged : r.id # task'[p].ic_id }
                 /\ { r.id : r \in ic_non_reged' } = { r.id : r \in ic_non_reged }
                 /\ (PendingRows(task'[p].ic_id) = {} => ic_non_reged' = ic_non_reged)
                 /\ ic_id' = ic_id]_vars

\* a reserved card has been cancelled twice in a row
C20_Witness ==
    /\ \E p \in Tasks : task[p].op = "cancel_reservation" /\ Returned(p)
    /\ Len(trail["c1"]) >= 2
    /\ trail["c1"][Len(trail["c1"]) - 1].op = "cancel"
    /\ trail["c1"][Len(trail["c1"])].op = "cancel"
    /\ PendingRows("c1") # {}

\* ------------------------------------------------------------ ReserveDirect replies

\* C21: a finished ReserveDirect call, on either entry point, answers a
\* missing driver with the normal response not_found, a registered card
\* (driver present) with the normal response conflict, both with success
\* false; it reports success only when the driver exists and the card was not
\* registered; and a transport error carries no business message.
C21_BusinessFailuresAreResponses ==
    \A p \in Tasks :
        (task[p].pc = "done" /\ task[p].op \in ReserveOps /\ task[p].resp # None)
            => LET r == task[p].resp[1]
                   absent == SelectDriver(task[p].driver_id) = None
               IN  /\ r.transport \in {"ok", "internal"}
                   /\ r.transport = "internal" => (~r.success /\ r.message = "")
                   /\ (r.transport = "ok" /\ absent)
                         => (~r.success /\ r.message = "not_found")
                   /\ (r.transport = "ok" /\ ~absent /\ task[p].registered)
                         => (~r.success /\ r.message = "conflict")
                   /\ r.success => (r.transport = "ok" /\ ~absent /\ ~task[p].registered)

\* ------------------------------------------------------------ ListPending

\* C22: for every start date, the query returns, once each, exactly the
\* pending rows with datetime >= since that are not completed and for which
\* no non-deleted registry row of the same card has a date equal to or later
\* than the row's datetime.
C22_ListPendingExact ==
    \A since \in Sinces :
        LET rows == get_all(since)
        IN  /\ DOMAIN rows
                 = { n \in ic_non_reged :
                       /\ n.datetime >= since
                       /\ n.deleted # Some(1)
                       /\ \A i \in DOMAIN ic_id :
                             (i.ic_id = n.id /\ i.deleted # Some(1)) => i.date < n.datetime }
            /\ \A n \in DOMAIN rows : rows[n] = 1

\* a card's open row is hidden by a registry row of exactly its datetime while
\* the other card's row is listed
C22_Witness ==
    /\ \E n \in ic_non_reged :
          /\ n.deleted = Some(0)
          /\ \E i \in BagToSet(ic_id) :
                i.ic_id = n.id /\ i.deleted = Some(0) /\ i.date = n.datetime
    /\ DOMAIN get_all(0) # {}

\* ------------------------------------------------------------ message handler claims

RegisteredIds == { c.socket_id : c \in clients }

\* C23: update_activity and update_ip for a socket id without entry return
\* the registry as it is; and no socket that has disconnected has an entry,
\* whatever message of it is handled afterwards.
C23_AbsentSessionStaysAbsent ==
    /\ \A id \in SocketIds \ RegisteredIds :
          /\ update_activity(clients, id, utc) = clients
          /\ \A ip \in IpAddresses : update_ip(clients, id, ip, utc) = clients
    /\ \A s \in closed : s \notin RegisteredIds

\* a message carrying an ip was handled after its sender had disconnected
C23_Witness ==
    \E m \in Events :
        /\ msg[m].via = "socket" /\ msg[m].pc = "done" /\ msg[m].lookup = "none"
        /\ msg[m].socket \in closed /\ msg[m].socket \notin msg[m].present
        /\ msg[m].inbound[1].ip = Some("10.0.0.7")

\* the ip a message makes the handler store, if any
CarriedIp(env) ==
    IF env.ip # None /\ env.ip[1] \notin {"", "unknown"} THEN env.ip ELSE None

C25_OtherTagsForwardedUnchanged ==
    \A m \in Events :
        (msg[m].via = "socket" /\ msg[m].inbound[1].status # Some("tmp inserted wo pic"))
            => /\ msg[m].pc # "lookup"
               /\ msg[m].lookup = "none"
               /\ msg[m].pc = "done"
                     => /\ msg[m].handed = 1
                        /\ msg[m].relayed = Some(to_string(msg[m].inbound[1]))
                        /\ msg[m].resp = "ok"

\* a message with an unknown tag, an id and no name has been relayed
C25_Witness ==
    \E m \in Events :
        /\ msg[m].via = "socket" /\ msg[m].pc = "done"
        /\ msg[m].inbound[1].status = Some("bogus")
        /\ msg[m].inbound[1].data[1].name = None

\* ------------------------------------------------------------ entry points, atomicity

\* C26: a call of register_direct_ic and a call of register_direct for the
\* same card and driver, each finding the card registered or not alike and
\* each answered without transport error, have the same success flag and
\* have both written the pending row or both left it alone.
C26_EntryPointsAgree ==
    \A p, q \in Tasks :
        (/\ Returned(p) /\ task[p].op = "register_direct_ic"
         /\ Returned(q) /\ task[q].op = "register_direct"
         /\ task[p].ic_id = task[q].ic_id /\ task[p].driver_id = task[q].driver_id
         /\ task[p].registered = task[q].registered)
            => /\ task[p].resp[1].success = task[q].resp[1].success
               /\ task[p].wrote = task[q].wrote

\* C27: no register_direct_ic call that answered success ran its upsert
\* while the card had a non-deleted ic_id row.
C27_CheckAndUpsertAtomic ==
    \A p \in Tasks :
        (Returned(p) /\ task[p].op = "register_direct_ic" /\ task[p].resp[1].success)
            => ~task[p].registered_at_write

\* C28: a card with a non-deleted ic_id row is in no answer of get_all.
C28_RegisteredCardNeverListed ==
    \A c \in RequestCards :
        BagCardinality(LiveRegistryRows(c)) > 0
            => \A since \in Sinces : \A n \in DOMAIN get_all(since) : n.id # c

\* C29: when the only register_ic call there is has ended and its UPDATE,
\* which followed a reservation of the card, is the last write to the card's
\* pending row, then its INSERT into ic_id was made: the call answered success.
C29_FinalizeAllOrNothing ==
    \A p \in Tasks :
        (/\ task[p].op = "register_ic" /\ task[p].pc = "done" /\ task[p].wrote
         /\ \A q \in Tasks \ {p} : task[q].op # "register_ic"
         /\ Len(trail[task[p].ic_id]) >= 2
         /\ trail[task[p].ic_id][Len(trail[task[p].ic_id]) - 1].op = "reserve"
         /\ trail[task[p].ic_id][Len(trail[task[p].ic_id])].op = "complete"
         /\ \E r \in PendingRows(task[p].ic_id) : r.deleted = Some(1))
            => task[p].resp[1].success

\* C30: a message relayed with no failing emit has been received once by
\* every socket connected when it was relayed, the sender included, and by
\* no other socket.
C30_DeliveredExactlyOnce ==
    \A m \in Events :
        (msg[m].via = "socket" /\ msg[m].pc = "done" /\ msg[m].handed = 1
                               /\ msg[m].failed = {})
            => \A s \in SocketIds :
                  recv[m][s] = IF s \in msg[m].present THEN 1 ELSE 0

\* relayed with the sender and another socket connected and no emit failing
C30_Witness ==
    \E m \in Events :
        /\ msg[m].via = "socket" /\ msg[m].pc = "done" /\ msg[m].handed = 1
        /\ msg[m].failed = {} /\ msg[m].present = SocketIds
        /\ \A s \in SocketIds : recv[m][s] = 1

====
